---------------------------- MODULE Spec2Model ----------------------------
(***************************************************************************)
(* Transactional insert engine of the ClickHouse exporter.                 *)
(*                                                                         *)
(* A push (pushTraceData, pushLogsData, or the insert of one of the five   *)
(* metric accumulators) runs doWithTx: db.Begin, tx.PrepareContext once,   *)
(* statement.ExecContext once per record of the tree walk, deferred        *)
(* statement.Close, tx.Commit, deferred tx.Rollback.  The store, the       *)
(* transactions and the prepared statements live behind the shared         *)
(* *sql.DB client; every driver call may fail.                             *)
(*                                                                         *)
(* Beside the insert engine the module models the metric accumulators'     *)
(* Add, the row builders (the positional argument list of every            *)
(* ExecContext, with the identifier, exemplar, event and link conversions) *)
(* and the schema creation run by start.                                   *)
(***************************************************************************)
EXTENDS Integers, Sequences, FiniteSets, TLC

(* ------------------------------ bounds -------------------------------- *)
NumPush   == 2   \* pushes that may be in flight over the shared client
MaxRes    == 2   \* resources in one traces/logs batch
MaxScope  == 1   \* scopes per resource
MaxRows   == 3   \* records (rows) in one batch / accumulator
MaxModels == 2   \* models held by one metric accumulator
ConcRec   == 2   \* records per push in the concurrent specification
MaxAdds   == 2   \* Add calls on one accumulator before its insert
MaxPoints == 1   \* data points of one metric handed to Add

Pushes == 1..NumPush

(* --------------------------- signal kinds ----------------------------- *)
TreeKinds   == {"spans", "logs"}
MetricKinds == {"sum", "gauge", "histogram", "exp_histogram", "summary"}
Kinds       == TreeKinds \cup MetricKinds

Nil == <<>>      \* the nil error

VARIABLES
  insertSQL,  \* exporter / accumulator field insertSQL: kind -> target table
  table,      \* the store: kind -> sequence of visible rows <<push, path>>
  txs,        \* transactions opened on the client: id -> [state, pending]
  stmts,      \* prepared statements: id -> [tx, target, closed]
  pc,         \* position of each push inside its handler
  kind,       \* signal kind of the push
  td,         \* traces/logs batch: resources -> scopes -> record count
  acc,        \* metric accumulator: [models, count]
  ctxDone,    \* the caller's context is cancelled / past its deadline
  cancelAt,   \* where the push was when its context was cancelled
  cursor,     \* loop variables of the walk: next candidate path
  tx,         \* transaction handle held by the push (0: none)
  stmt,       \* statement handle held by the push (0: none)
  err,        \* error doWithTx is about to return
  ret,        \* value the push returned
  pre,        \* the store as it was when the push was called
  calls,      \* calls the push made on the client, in order
  offered,    \* metrics handed to Add, in call order, with Add's result
  rec,        \* the record a row builder is given
  args,       \* the positional arguments the row builder hands ExecContext
  cfg,        \* *Config shared by the exporters
  store,      \* objects (database, tables, view) that exist in the store
  sig,        \* the exporter whose start is running
  spc,        \* position of start inside its code
  target,     \* createDatabase's local targetDatabase
  ddl,        \* statements the running start issued, with their results
  sret,       \* what the last start returned
  runs        \* results of the starts that returned, per exporter

pushVars == <<insertSQL, table, txs, stmts, pc, kind, td, acc, ctxDone,
              cancelAt, cursor, tx, stmt, err, ret, pre, calls>>

rowVars == <<rec, args>>

schemaVars == <<cfg, store, sig, spc, target, ddl, sret, runs>>

\* what the insert engine never touches
aside == <<offered, rowVars, schemaVars>>

vars == <<pushVars, aside>>

shared == <<insertSQL, table, txs, stmts>>

(* ----------------------------- inputs --------------------------------- *)
RECURSIVE SumSeq(_)
SumSeq(s) == IF s = <<>> THEN 0 ELSE Head(s) + SumSeq(Tail(s))

\* record counts of the scopes of one resource
ScopeLists ==
  {sl \in UNION {[1..n -> 0..MaxRows] : n \in 0..MaxScope} :
     SumSeq(sl) <= MaxRows}

\* batches of pushTraceData / pushLogsData: resources -> scopes -> records
Trees ==
  {t \in UNION {[1..n -> ScopeLists] : n \in 0..MaxRes} :
     SumSeq([i \in 1..Len(t) |-> SumSeq(t[i])]) <= MaxRows}

\* data point counts of the metrics handed to Add
ModelLists ==
  {ms \in UNION {[1..n -> 0..MaxRows] : n \in 0..MaxModels} :
     SumSeq(ms) <= MaxRows}

\* the concurrent specification interleaves small pushes of two kinds
ConcTreeKinds   == {"spans"}
ConcMetricKinds == {"sum"}
ConcTrees       == {<<<<ConcRec>>>>}
ConcModelLists  == {<<n>> : n \in {0, ConcRec}}

(* ------------------------- metric accumulators ------------------------ *)
EmptyAcc == [models |-> <<>>, count |-> 0]

\* an Add that counts the models it holds instead of their data points
AddCountsModels(a, n) == [models |-> Append(a.models, n), count |-> a.count + 1]

\* Add: count += DataPoints().Len(); append the model
Add(a, n) == [models |-> Append(a.models, n), count |-> a.count + n]

RECURSIVE AddAll(_, _)
AddAll(a, ms) == IF ms = <<>> THEN a ELSE AddAll(Add(a, Head(ms)), Tail(ms))

\* insert: if count == 0 { return nil }; traces and logs have no such guard
ShouldSkip(k, a) == k \in MetricKinds /\ a.count = 0

\* the values handed to Add as `metrics any`: a pmetric value of one of the
\* five aggregation kinds with its data points
Metrics == [type : MetricKinds, n : 0..MaxPoints]

TypeName(k) ==
  CASE k = "sum"           -> "Sum"
    [] k = "gauge"         -> "Gauge"
    [] k = "histogram"     -> "Histogram"
    [] k = "exp_histogram" -> "ExponentialHistogram"
    [] k = "summary"       -> "Summary"

\* errors.New("metrics param is not type of Sum")
TypeErr(k) == <<"metrics param is not type of " \o TypeName(k)>>

\* a type assertion that lets every value through
IsTypeAny(k, m) == TRUE

\* sum, ok := metrics.(pmetric.Sum), for the accumulator of kind k
IsType(k, m) == m.type = k

\* Add of the accumulator of kind k: the accumulator it leaves and the error
\* it returns
AddMetric(k, a, m) ==
  IF ~IsType(k, m)
  THEN [acc |-> a, err |-> TypeErr(k)]
  ELSE [acc |-> Add(a, m.n), err |-> Nil]

(* ------------------------------ the walk ------------------------------ *)
Done == <<0>>

\* for i := range resources { for j := range scopes { for k := range records
RECURSIVE NextPath3(_, _, _, _)
NextPath3(t, i, j, k) ==
  IF i > Len(t) THEN Done
  ELSE IF j > Len(t[i]) THEN NextPath3(t, i + 1, 1, 1)
  ELSE IF k > t[i][j] THEN NextPath3(t, i, j + 1, 1)
  ELSE <<i, j, k>>

\* for _, model := range models { for i := range model.DataPoints().Len()
RECURSIVE NextPath2(_, _, _)
NextPath2(ms, m, d) ==
  IF m > Len(ms) THEN Done
  ELSE IF d > ms[m] THEN NextPath2(ms, m + 1, 1)
  ELSE <<m, d>>

StartCursor(k) == IF k \in TreeKinds THEN <<1, 1, 1>> ELSE <<1, 1>>

NextPath(p) ==
  IF kind[p] \in TreeKinds
  THEN NextPath3(td[p], cursor[p][1], cursor[p][2], cursor[p][3])
  ELSE NextPath2(acc[p].models, cursor[p][1], cursor[p][2])

\* a walk that steps over the record after each executed one
AdvanceSkip(path) == [path EXCEPT ![Len(path)] = @ + 2]

\* the innermost loop variable advances after a row was executed
Advance(path) == [path EXCEPT ![Len(path)] = @ + 1]

(* ------------------------------ errors -------------------------------- *)
InsertFailPrefix(k) ==
  CASE k = "sum"           -> "insert sum metrics fail"
    [] k = "gauge"         -> "insert gauge metrics fail"
    [] k = "histogram"     -> "insert histogram metrics fail"
    [] k = "exp_histogram" -> "insert exponential histogram metrics fail"
    [] k = "summary"       -> "insert summary metrics fail"

\* traces/logs: fmt.Errorf("PrepareContext:%w", err); metrics: return err
PrepareErr(k, e) == IF k \in TreeKinds THEN <<"PrepareContext">> \o e ELSE e

\* fmt.Errorf("ExecContext:%w", err)
ExecErr(e) == <<"ExecContext">> \o e

\* fmt.Errorf("db.Begin: %w", err)
BeginErr(e) == <<"db.Begin">> \o e

\* what the push returns for doWithTx's result e
PushResult(k, e) ==
  IF k \in MetricKinds /\ e # Nil THEN <<InsertFailPrefix(k)>> \o e ELSE e

(* --------------------------- client objects --------------------------- *)
\* a client that hands the same transaction to every caller
NewTxShared(ts) == 1

\* db.Begin hands out a fresh transaction
NewTx(ts) == Len(ts) + 1

\* tx.PrepareContext hands out a fresh statement
NewStmt(ss) == Len(ss) + 1

Event(op, ok, arg) == [op |-> op, ok |-> ok, arg |-> arg]

Log(p, evs) == calls' = [calls EXCEPT ![p] = @ \o evs]

\* rows of a committed transaction become visible in their target tables
RECURSIVE Apply(_, _)
Apply(tb, pend) ==
  IF pend = <<>> THEN tb
  ELSE Apply([tb EXCEPT ![Head(pend).target] = Append(@, Head(pend).row)],
             Tail(pend))

\* a successful tx.Commit: the transaction is done, nothing stays pending
CommitTx(ts, id) == [ts EXCEPT ![id] = [state |-> "committed", pending |-> <<>>]]

\* a deferred rollback that was left out
RollbackTxNoop(ts, id) == ts

\* tx.Rollback: discards the pending rows of an open transaction and is a
\* no-op (ErrTxDone) on a transaction that is already done
RollbackTx(ts, id) ==
  IF ts[id].state = "open"
  THEN [ts EXCEPT ![id] = [state |-> "rolledback", pending |-> <<>>]]
  ELSE ts

\* statement.ExecContext: the row joins the statement's transaction
ExecRow(ts, ss, sid, row) ==
  [ts EXCEPT ![ss[sid].tx].pending =
     Append(@, [target |-> ss[sid].target, row |-> row])]

\* a deferred statement.Close that was left out
CloseStmtNoop(ss, sid) == ss

\* statement.Close
CloseStmt(ss, sid) ==
  IF sid \in DOMAIN ss THEN [ss EXCEPT ![sid].closed = TRUE] ELSE ss

(* ------------------------------- Init --------------------------------- *)
\* a row an earlier, committed push left in every table
OldRow == <<0, <<1>>>>

\* no row builder has been given a record
RowIdle == rec = <<>> /\ args = <<>>

\* no start has run: the store is empty
SchemaIdle ==
  /\ cfg = [Database |-> "default", CreateSchema |-> FALSE]
  /\ store = {}
  /\ sig = "traces"
  /\ spc = "idle"
  /\ target = ""
  /\ ddl = <<>>
  /\ sret = Nil
  /\ runs = [s \in {"traces", "logs"} |-> <<>>]

\* newTracesExporter / newLogsExporter / the accumulator of kind k0: nothing
\* is in flight
InitOf(tb, k0) ==
  /\ insertSQL = [k \in Kinds |-> k]
  /\ table = tb
  /\ txs = <<>>
  /\ stmts = <<>>
  /\ pc = [p \in Pushes |-> "idle"]
  /\ kind = [p \in Pushes |-> k0]
  /\ td = [p \in Pushes |-> <<>>]
  /\ acc = [p \in Pushes |-> EmptyAcc]
  /\ ctxDone = [p \in Pushes |-> FALSE]
  /\ cancelAt = [p \in Pushes |-> "none"]
  /\ cursor = [p \in Pushes |-> <<1, 1, 1>>]
  /\ tx = [p \in Pushes |-> 0]
  /\ stmt = [p \in Pushes |-> 0]
  /\ err = [p \in Pushes |-> Nil]
  /\ ret = [p \in Pushes |-> Nil]
  /\ pre = [p \in Pushes |-> table]
  /\ calls = [p \in Pushes |-> <<>>]
  /\ offered = [p \in Pushes |-> <<>>]

InitWith(tb) == InitOf(tb, "spans") /\ RowIdle /\ SchemaIdle

\* the tables are empty or hold rows of earlier pushes
Init == \E old \in {<<>>, <<OldRow>>} : InitWith([k \in Kinds |-> old])

InitConc == InitWith([k \in Kinds |-> <<>>])


(* --------------------------- control flow ----------------------------- *)
DriverErr == <<"driver error">>
CtxErr    == <<"context canceled">>

\* doWithTx without the early return on fn's error
AfterFnAlwaysCommit(e) == "commit"

\* doWithTx: if err := fn(tx); err != nil { return err }; return tx.Commit()
AfterFn(e) == IF e # Nil THEN "rollback" ELSE "commit"

\* a loop that goes on after a failed row
ExecNextIgnore(e) == "loop"

\* if err != nil { return fmt.Errorf("ExecContext:%w", err) }, else the
\* loop goes on
ExecNext(e) == IF e # Nil THEN AfterFn(e) ELSE "loop"

\* a commit whose error is dropped
CommitResultSwallow(ok) == Nil

\* after the loops: traces/logs return nil; the metric inserts return err,
\* the result of the last call made on the statement
FnReturn(k, e) == IF k \in TreeKinds THEN Nil ELSE e

\* return tx.Commit()
CommitResult(ok) == IF ok THEN Nil ELSE DriverErr

(* ------------------------------ actions ------------------------------- *)
\* pushTraceData / pushLogsData is called with a batch
PushTree(p, kinds, trees) ==
  /\ pc[p] = "idle"
  /\ \E k \in kinds, t \in trees :
       /\ kind' = [kind EXCEPT ![p] = k]
       /\ td' = [td EXCEPT ![p] = t]
       /\ cursor' = [cursor EXCEPT ![p] = StartCursor(k)]
  /\ pre' = [pre EXCEPT ![p] = table]
  /\ pc' = [pc EXCEPT ![p] = "insert"]
  /\ UNCHANGED <<aside, shared, acc, ctxDone, cancelAt, tx, stmt, err, ret, calls>>

\* insert is called on a metric accumulator filled by Add
PushMetrics(p, kinds, lists) ==
  /\ pc[p] = "idle"
  /\ \E k \in kinds, ms \in lists :
       /\ kind' = [kind EXCEPT ![p] = k]
       /\ acc' = [acc EXCEPT ![p] = AddAll(EmptyAcc, ms)]
       /\ cursor' = [cursor EXCEPT ![p] = StartCursor(k)]
  /\ pre' = [pre EXCEPT ![p] = table]
  /\ pc' = [pc EXCEPT ![p] = "insert"]
  /\ UNCHANGED <<aside, shared, td, ctxDone, cancelAt, tx, stmt, err, ret, calls>>

\* Add is called on the accumulator of push p, before its insert
AddCall(p) ==
  /\ pc[p] = "idle"
  /\ Len(offered[p]) < MaxAdds
  /\ \E m \in Metrics :
       LET r == AddMetric(kind[p], acc[p], m)
       IN  /\ acc' = [acc EXCEPT ![p] = r.acc]
           /\ offered' = [offered EXCEPT ![p] =
                 Append(@, [type |-> m.type, n |-> m.n, err |-> r.err])]
  /\ UNCHANGED <<rowVars, schemaVars, shared, pc, kind, td, ctxDone, cancelAt,
                 cursor, tx, stmt, err, ret, pre, calls>>

\* insert is called on the accumulator the Add calls filled
InsertCall(p) ==
  /\ pc[p] = "idle"
  /\ cursor' = [cursor EXCEPT ![p] = StartCursor(kind[p])]
  /\ pre' = [pre EXCEPT ![p] = table]
  /\ pc' = [pc EXCEPT ![p] = "insert"]
  /\ UNCHANGED <<aside, shared, kind, td, acc, ctxDone, cancelAt, tx, stmt, err,
                 ret, calls>>

\* if s.count == 0 { return nil }
InsertSkip(p) ==
  /\ pc[p] = "insert"
  /\ ShouldSkip(kind[p], acc[p])
  /\ ret' = [ret EXCEPT ![p] = Nil]
  /\ pc' = [pc EXCEPT ![p] = "done"]
  /\ UNCHANGED <<aside, shared, kind, td, acc, ctxDone, cancelAt, cursor, tx, stmt,
                 err, pre, calls>>

\* tx, err := db.Begin(); the context is not passed to it
DbBegin(p) ==
  /\ pc[p] = "insert"
  /\ ~ShouldSkip(kind[p], acc[p])
  /\ \/ /\ tx' = [tx EXCEPT ![p] = NewTx(txs)]
        /\ txs' = Append(txs, [state |-> "open", pending |-> <<>>])
        /\ Log(p, <<Event("Begin", TRUE, <<>>)>>)
        /\ pc' = [pc EXCEPT ![p] = "prepare"]
        /\ UNCHANGED ret
     \/ /\ ret' = [ret EXCEPT ![p] = PushResult(kind[p], BeginErr(DriverErr))]
        /\ Log(p, <<Event("Begin", FALSE, <<>>)>>)
        /\ pc' = [pc EXCEPT ![p] = "done"]
        /\ UNCHANGED <<tx, txs>>
  /\ UNCHANGED <<aside, insertSQL, table, stmts, kind, td, acc, ctxDone, cancelAt,
                 cursor, stmt, err, pre>>

\* tx.PrepareContext(ctx, insertSQL) is entered: a context that is already
\* done fails the call before the driver is reached
PrepareStart(p) ==
  /\ pc[p] = "prepare"
  /\ IF ctxDone[p]
     THEN /\ err' = [err EXCEPT ![p] = PrepareErr(kind[p], CtxErr)]
          /\ Log(p, <<Event("Prepare", FALSE, <<>>)>>)
          /\ pc' = [pc EXCEPT ![p] = AfterFn(err'[p])]
     ELSE /\ pc' = [pc EXCEPT ![p] = "preparing"]
          /\ UNCHANGED <<err, calls>>
  /\ UNCHANGED <<aside, shared, kind, td, acc, ctxDone, cancelAt, cursor, tx, stmt,
                 ret, pre>>

\* the driver answers the prepare
PrepareFinish(p) ==
  /\ pc[p] = "preparing"
  /\ \/ /\ stmt' = [stmt EXCEPT ![p] = NewStmt(stmts)]
        /\ stmts' = Append(stmts, [tx |-> tx[p], target |-> insertSQL[kind[p]],
                                   closed |-> FALSE])
        /\ Log(p, <<Event("Prepare", TRUE, <<>>)>>)
        /\ pc' = [pc EXCEPT ![p] = "loop"]
        /\ UNCHANGED err
     \/ /\ err' = [err EXCEPT ![p] = PrepareErr(kind[p], DriverErr)]
        /\ Log(p, <<Event("Prepare", FALSE, <<>>)>>)
        /\ pc' = [pc EXCEPT ![p] = AfterFn(err'[p])]
        /\ UNCHANGED <<stmt, stmts>>
  /\ UNCHANGED <<aside, insertSQL, table, txs, kind, td, acc, ctxDone, cancelAt,
                 cursor, tx, ret, pre>>

\* statement.ExecContext(ctx, ...) is entered for the next record of the
\* walk; a context that is already done fails the call
ExecStart(p) ==
  /\ pc[p] = "loop"
  /\ NextPath(p) # Done
  /\ IF ctxDone[p]
     THEN /\ err' = [err EXCEPT ![p] = ExecErr(CtxErr)]
          /\ cursor' = [cursor EXCEPT ![p] = Advance(NextPath(p))]
          /\ Log(p, <<Event("Exec", FALSE, NextPath(p))>>)
          /\ pc' = [pc EXCEPT ![p] = ExecNext(err'[p])]
     ELSE /\ pc' = [pc EXCEPT ![p] = "execing"]
          /\ cursor' = [cursor EXCEPT ![p] = NextPath(p)]
          /\ UNCHANGED <<err, calls>>
  /\ UNCHANGED <<aside, shared, kind, td, acc, ctxDone, cancelAt, tx, stmt, ret, pre>>

\* the driver answers the row execution
ExecFinish(p) ==
  /\ pc[p] = "execing"
  /\ \/ /\ txs' = ExecRow(txs, stmts, stmt[p], <<p, cursor[p]>>)
        /\ Log(p, <<Event("Exec", TRUE, cursor[p])>>)
        /\ err' = [err EXCEPT ![p] = Nil]
        /\ pc' = [pc EXCEPT ![p] = ExecNext(err'[p])]
     \/ /\ err' = [err EXCEPT ![p] = ExecErr(DriverErr)]
        /\ Log(p, <<Event("Exec", FALSE, cursor[p])>>)
        /\ pc' = [pc EXCEPT ![p] = ExecNext(err'[p])]
        /\ UNCHANGED txs
  /\ cursor' = [cursor EXCEPT ![p] = Advance(@)]
  /\ UNCHANGED <<aside, insertSQL, table, stmts, kind, td, acc, ctxDone, cancelAt, tx,
                 stmt, ret, pre>>

\* the loops are exhausted and fn returns
LoopEnd(p) ==
  /\ pc[p] = "loop"
  /\ NextPath(p) = Done
  /\ err' = [err EXCEPT ![p] = FnReturn(kind[p], @)]
  /\ pc' = [pc EXCEPT ![p] = AfterFn(err'[p])]
  /\ UNCHANGED <<aside, shared, kind, td, acc, ctxDone, cancelAt, cursor, tx, stmt,
                 ret, pre, calls>>

\* return tx.Commit(), preceded by fn's deferred statement.Close; the
\* transaction was begun without the caller's context, so Commit does not
\* look at it
TxCommit(p) ==
  /\ pc[p] = "commit"
  /\ \E ok \in BOOLEAN :
       /\ IF ok
          THEN /\ table' = Apply(table, txs[tx[p]].pending)
               /\ txs' = CommitTx(txs, tx[p])
          ELSE /\ txs' = [txs EXCEPT ![tx[p]] =
                            [state |-> "failed", pending |-> <<>>]]
               /\ UNCHANGED table
       /\ err' = [err EXCEPT ![p] = CommitResult(ok)]
       /\ Log(p, <<Event("Close", TRUE, <<>>), Event("Commit", ok, <<>>)>>)
  /\ stmts' = CloseStmt(stmts, stmt[p])
  /\ pc' = [pc EXCEPT ![p] = "rollback"]
  /\ UNCHANGED <<aside, insertSQL, kind, td, acc, ctxDone, cancelAt, cursor, tx, stmt,
                 ret, pre>>

\* the deferred calls of the error path and of the commit path:
\* fn's statement.Close (when the statement exists and is still open), then
\* defer func() { _ = tx.Rollback() }(); the push returns
TxRollback(p) ==
  /\ pc[p] = "rollback"
  /\ LET closing == stmt[p] # 0 /\ ~stmts[stmt[p]].closed
     IN  /\ stmts' = IF closing THEN CloseStmt(stmts, stmt[p]) ELSE stmts
         /\ Log(p, (IF closing THEN <<Event("Close", TRUE, <<>>)>> ELSE <<>>)
                   \o <<Event("Rollback", txs[tx[p]].state = "open", <<>>)>>)
  /\ txs' = RollbackTx(txs, tx[p])
  /\ ret' = [ret EXCEPT ![p] = PushResult(kind[p], err[p])]
  /\ pc' = [pc EXCEPT ![p] = "done"]
  /\ UNCHANGED <<aside, insertSQL, table, kind, td, acc, ctxDone, cancelAt, cursor,
                 tx, stmt, err, pre>>

\* where a push is when its context is cancelled
Stage(p) ==
  CASE pc[p] = "insert" -> "beforeBegin"
    [] pc[p] = "loop" /\ NextPath(p) # Done /\ txs[tx[p]].pending # <<>>
         -> "betweenRows"
    [] pc[p] = "loop" /\ NextPath(p) # Done -> "beforeFirstRow"
    [] pc[p] = "loop" -> "afterLastRow"
    [] OTHER -> pc[p]

\* the caller cancels the context of an in-flight push, or its deadline
\* expires
CancelCtx(p) ==
  /\ pc[p] \notin {"idle", "done"}
  /\ ~ctxDone[p]
  /\ ctxDone' = [ctxDone EXCEPT ![p] = TRUE]
  /\ cancelAt' = [cancelAt EXCEPT ![p] = Stage(p)]
  /\ UNCHANGED <<aside, shared, pc, kind, td, acc, cursor, tx, stmt, err, ret, pre,
                 calls>>

(* --------------------------- specifications --------------------------- *)
\* one push with every kind and every bounded batch
Next ==
  \E p \in {1} :
    \/ PushTree(p, TreeKinds, Trees)
    \/ PushMetrics(p, MetricKinds, ModelLists)
    \/ InsertSkip(p)
    \/ DbBegin(p)
    \/ PrepareStart(p)
    \/ PrepareFinish(p)
    \/ ExecStart(p)
    \/ ExecFinish(p)
    \/ LoopEnd(p)
    \/ TxCommit(p)
    \/ TxRollback(p)
    \/ CancelCtx(p)

Spec == Init /\ [][Next]_vars

\* several pushes interleaved over the shared client; pushes are numbered
\* in the order they are called
Arrived(p) == IF p = 1 THEN TRUE ELSE pc[p - 1] # "idle"

NextConc ==
  \E p \in Pushes :
    \/ Arrived(p) /\ PushTree(p, ConcTreeKinds, ConcTrees)
    \/ Arrived(p) /\ PushMetrics(p, ConcMetricKinds, ConcModelLists)
    \/ InsertSkip(p)
    \/ DbBegin(p)
    \/ PrepareStart(p)
    \/ PrepareFinish(p)
    \/ ExecStart(p)
    \/ ExecFinish(p)
    \/ LoopEnd(p)
    \/ TxCommit(p)
    \/ TxRollback(p)

SpecConc == InitConc /\ [][NextConc]_vars

\* one accumulator of each metric kind: Add calls with metrics of every
\* aggregation kind, then its insert
InitAdd ==
  \E k \in MetricKinds :
    InitOf([t \in Kinds |-> <<>>], k) /\ RowIdle /\ SchemaIdle

NextAdd ==
  \E p \in {1} :
    \/ AddCall(p)
    \/ InsertCall(p)
    \/ InsertSkip(p)
    \/ DbBegin(p)
    \/ PrepareStart(p)
    \/ PrepareFinish(p)
    \/ ExecStart(p)
    \/ ExecFinish(p)
    \/ LoopEnd(p)
    \/ TxCommit(p)
    \/ TxRollback(p)

SpecAdd == InitAdd /\ [][NextAdd]_vars

(* ---------------------------- row builders ---------------------------- *)
\* the bounds of the records handed to the row builders
MaxTime      == 2   \* largest timestamp (nanoseconds since the epoch)
MaxEvents    == 2   \* events of one span
MaxLinks     == 2   \* links of one span
MaxExemplars == 2   \* exemplars of one data point
MaxBuckets   == 2   \* bucket counts / explicit bounds of one data point
MaxQuantiles == 1   \* quantile values of one summary data point

SeqsUpTo(S, n) == UNION {[1..m -> S] : m \in 0..n}

Times == 0..MaxTime

\* pcommon.SpanID is [8]byte, pcommon.TraceID is [16]byte
SpanIDLen  == 8
TraceIDLen == 16

ZeroID(n) == [i \in 1..n |-> 0]

\* 0x0a, 0xf1: a digit and a letter in either half of the byte
SampleBytes == {10, 241}

\* identifiers: all zero, one byte repeated, one non-zero byte at one place
IDs(n) ==
  {ZeroID(n)}
    \cup {[i \in 1..n |-> b] : b \in SampleBytes}
    \cup {[i \in 1..n |-> IF i = j THEN b ELSE 0] : j \in 1..n, b \in SampleBytes}

MixedID(n) == [i \in 1..n |-> IF i % 2 = 1 THEN 10 ELSE 241]

\* the identifiers the records carry
RecIDs(n) == {ZeroID(n), MixedID(n)}

\* id.IsEmpty(): every byte is zero
IsEmpty(id) == \A i \in 1..Len(id) : id[i] = 0

\* hextable of encoding/hex
Hextable == <<"0", "1", "2", "3", "4", "5", "6", "7", "8", "9",
              "a", "b", "c", "d", "e", "f">>

\* an encoder that writes the low half of each byte first
EncodeToStringLowFirst(id) ==
  [j \in 1..(2 * Len(id)) |->
     IF j % 2 = 1 THEN Hextable[(id[(j + 1) \div 2] % 16) + 1]
     ELSE Hextable[(id[j \div 2] \div 16) + 1]]

\* hex.EncodeToString(id[:]): dst[2i] = hextable[v>>4], dst[2i+1] =
\* hextable[v&0x0f]; a string is the sequence of its characters
EncodeToString(id) ==
  [j \in 1..(2 * Len(id)) |->
     IF j % 2 = 1 THEN Hextable[(id[(j + 1) \div 2] \div 16) + 1]
     ELSE Hextable[(id[j \div 2] % 16) + 1]]

SpanIDToHexOrEmptyString(id) == IF IsEmpty(id) THEN <<>> ELSE EncodeToString(id)

TraceIDToHexOrEmptyString(id) == IF IsEmpty(id) THEN <<>> ELSE EncodeToString(id)

\* pcommon.Timestamp.AsTime(): the time.Time of that many nanoseconds
AsTime(ts) == [unixNano |-> ts]

\* AttributesToJSON: the JSON text of an attribute map
AttributesToJSON(a) == [json |-> a]

\* getValue: the double of the member the value-type tag names
getValue(intValue, floatValue, dataType) ==
  CASE dataType = "double" -> floatValue
    [] dataType = "int"    -> intValue
    [] OTHER               -> 0

\* convertSliceToArraySet: the elements of the slice, one by one
convertSliceToArraySet(s) == [i \in 1..Len(s) |-> s[i]]

\* events listed last first
convertEventsReversed(events) ==
  LET n == Len(events)
  IN  <<[i \in 1..n |-> AsTime(events[n + 1 - i].Timestamp)],
        [i \in 1..n |-> events[n + 1 - i].Name],
        [i \in 1..n |-> AttributesToJSON(events[n + 1 - i].Attributes)]>>

\* convertEvents: times, names, attrs, one append each per event
convertEvents(events) ==
  <<[i \in 1..Len(events) |-> AsTime(events[i].Timestamp)],
    [i \in 1..Len(events) |-> events[i].Name],
    [i \in 1..Len(events) |-> AttributesToJSON(events[i].Attributes)]>>

\* convertLinks: traceIDs, spanIDs, states, attrs
convertLinks(links) ==
  <<[i \in 1..Len(links) |-> TraceIDToHexOrEmptyString(links[i].TraceID)],
    [i \in 1..Len(links) |-> SpanIDToHexOrEmptyString(links[i].SpanID)],
    [i \in 1..Len(links) |-> links[i].TraceState],
    [i \in 1..Len(links) |-> AttributesToJSON(links[i].Attributes)]>>

\* convertExemplars: attrs, times, values, traceIDs, spanIDs
convertExemplars(exemplars) ==
  <<[i \in 1..Len(exemplars) |->
       AttributesToJSON(exemplars[i].FilteredAttributes)],
    [i \in 1..Len(exemplars) |-> AsTime(exemplars[i].Timestamp)],
    [i \in 1..Len(exemplars) |->
       getValue(exemplars[i].IntValue, exemplars[i].DoubleValue,
                exemplars[i].ValueType)],
    [i \in 1..Len(exemplars) |-> TraceIDToHexOrEmptyString(exemplars[i].TraceID)],
    [i \in 1..Len(exemplars) |-> SpanIDToHexOrEmptyString(exemplars[i].SpanID)]>>

\* convertValueAtQuantile: quantiles, values
convertValueAtQuantile(qs) ==
  <<[i \in 1..Len(qs) |-> qs[i].Quantile], [i \in 1..Len(qs) |-> qs[i].Value]>>

\* the events, links, exemplars and quantile values the records carry
EventVals ==
  {[Timestamp |-> 1, Name |-> "ev1", Attributes |-> "ea1"],
   [Timestamp |-> 2, Name |-> "ev2", Attributes |-> "ea2"]}

LinkVals ==
  {[TraceID |-> MixedID(TraceIDLen), SpanID |-> ZeroID(SpanIDLen),
    TraceState |-> "ts1", Attributes |-> "la1"],
   [TraceID |-> ZeroID(TraceIDLen), SpanID |-> MixedID(SpanIDLen),
    TraceState |-> "ts2", Attributes |-> "la2"]}

ExemplarVals ==
  {[FilteredAttributes |-> "fa1", Timestamp |-> 1, ValueType |-> "int",
    IntValue |-> 3, DoubleValue |-> 0,
    SpanID |-> MixedID(SpanIDLen), TraceID |-> MixedID(TraceIDLen)],
   [FilteredAttributes |-> "fa2", Timestamp |-> 2, ValueType |-> "double",
    IntValue |-> 0, DoubleValue |-> 5,
    SpanID |-> ZeroID(SpanIDLen), TraceID |-> [i \in 1..TraceIDLen |-> 241]]}

QuantileVals == {[Quantile |-> 50, Value |-> 7], [Quantile |-> 99, Value |-> 9]}

\* the records of each signal kind; the fields the builders copy unchanged
\* are named by the builders themselves
SpanRecs ==
  [kind : {"spans"}, StartTimestamp : Times, EndTimestamp : Times,
   TraceID : RecIDs(TraceIDLen), SpanID : RecIDs(SpanIDLen),
   ParentSpanID : RecIDs(SpanIDLen),
   Events : SeqsUpTo(EventVals, MaxEvents),
   Links : SeqsUpTo(LinkVals, MaxLinks)]

LogRecs ==
  [kind : {"logs"}, Timestamp : Times, ObservedTimestamp : Times,
   TraceID : RecIDs(TraceIDLen), SpanID : RecIDs(SpanIDLen)]

NumberRecs ==
  [kind : {"sum", "gauge"}, ValueType : {"int", "double"},
   Exemplars : SeqsUpTo(ExemplarVals, MaxExemplars)]

HistogramRecs ==
  [kind : {"histogram"},
   BucketCounts : SeqsUpTo({0, 4}, MaxBuckets),
   ExplicitBounds : SeqsUpTo({1, 2}, MaxBuckets),
   Exemplars : SeqsUpTo(ExemplarVals, MaxExemplars)]

ExpHistogramRecs ==
  [kind : {"exp_histogram"},
   PositiveBucketCounts : SeqsUpTo({4}, MaxBuckets),
   NegativeBucketCounts : SeqsUpTo({6}, MaxBuckets),
   Exemplars : SeqsUpTo(ExemplarVals, MaxExemplars)]

SummaryRecs ==
  [kind : {"summary"}, QuantileValues : SeqsUpTo(QuantileVals, MaxQuantiles)]

IDRecs ==
  [kind : {"span_id"}, id : IDs(SpanIDLen)]
    \cup [kind : {"trace_id"}, id : IDs(TraceIDLen)]

Records ==
  SpanRecs \cup LogRecs \cup NumberRecs \cup HistogramRecs
    \cup ExpHistogramRecs \cup SummaryRecs \cup IDRecs

\* the column list of each INSERT statement
MetricPrefixColumns ==
  <<"ResourceAttributes", "ResourceSchemaUrl", "ScopeName", "ScopeVersion",
    "ScopeAttributes", "ScopeDroppedAttrCount", "ScopeSchemaUrl",
    "ServiceName", "MetricName", "MetricDescription", "MetricUnit",
    "Attributes", "StartTimeUnix", "TimeUnix">>

ExemplarColumns ==
  <<"Exemplars.FilteredAttributes", "Exemplars.TimeUnix", "Exemplars.Value",
    "Exemplars.SpanId", "Exemplars.TraceId">>

InsertColumns(k) ==
  CASE k = "spans" ->
         <<"Timestamp", "TraceId", "SpanId", "ParentSpanId", "TraceState",
           "SpanName", "SpanKind", "ServiceName", "ResourceAttributes",
           "ScopeName", "ScopeVersion", "SpanAttributes", "Duration",
           "StatusCode", "StatusMessage", "Events.Timestamp", "Events.Name",
           "Events.Attributes", "Links.TraceId", "Links.SpanId",
           "Links.TraceState", "Links.Attributes">>
    [] k = "logs" ->
         <<"Timestamp", "TraceId", "SpanId", "TraceFlags", "SeverityText",
           "SeverityNumber", "ServiceName", "Body", "ResourceSchemaUrl",
           "ResourceAttributes", "ScopeSchemaUrl", "ScopeName",
           "ScopeVersion", "ScopeAttributes", "LogAttributes">>
    [] k = "sum" ->
         MetricPrefixColumns \o <<"Value", "Flags">> \o ExemplarColumns
           \o <<"AggregationTemporality", "IsMonotonic">>
    [] k = "gauge" ->
         MetricPrefixColumns \o <<"Value", "Flags">> \o ExemplarColumns
    [] k = "histogram" ->
         MetricPrefixColumns
           \o <<"Count", "Sum", "BucketCounts", "ExplicitBounds">>
           \o ExemplarColumns
           \o <<"Flags", "Min", "Max", "AggregationTemporality">>
    [] k = "exp_histogram" ->
         MetricPrefixColumns
           \o <<"Count", "Sum", "Scale", "ZeroCount", "PositiveOffset",
                "PositiveBucketCounts", "NegativeOffset",
                "NegativeBucketCounts">>
           \o ExemplarColumns
           \o <<"Flags", "Min", "Max", "AggregationTemporality">>
    [] k = "summary" ->
         MetricPrefixColumns
           \o <<"Count", "Sum", "ValueAtQuantiles.Quantile",
                "ValueAtQuantiles.Value", "Flags">>

\* the number of ? in the VALUES list of each INSERT statement
Placeholders(k) ==
  CASE k = "spans"         -> 22
    [] k = "logs"          -> 15
    [] k = "sum"           -> 23
    [] k = "gauge"         -> 21
    [] k = "histogram"     -> 27
    [] k = "exp_histogram" -> 31
    [] k = "summary"       -> 19

\* the column list of each CREATE TABLE statement, a Nested column standing
\* for its sub-columns; the logs table has one column more than its INSERT
TableColumns(k) ==
  IF k = "logs"
  THEN <<"Timestamp", "TimestampTime", "TraceId", "SpanId", "TraceFlags",
         "SeverityText", "SeverityNumber", "ServiceName", "Body",
         "ResourceSchemaUrl", "ResourceAttributes", "ScopeSchemaUrl",
         "ScopeName", "ScopeVersion", "ScopeAttributes", "LogAttributes">>
  ELSE InsertColumns(k)

\* the columns declared with a DEFAULT expression:
\* TimestampTime DateTime DEFAULT toDateTime(Timestamp)
DefaultColumns(k) == IF k = "logs" THEN {"TimestampTime"} ELSE {}

\* one positional argument of ExecContext: the expression it is and its value
Arg(f, v) == [f |-> f, v |-> v]

\* an argument copied from the record, its scope or its resource as it is
Plain(f) == Arg(f, [of |-> f])

\* end.Sub(start).Nanoseconds()
SubNanoseconds(end, start) == end - start

\* a row whose trace id and span id changed places
SpanArgsIdsSwapped(r) ==
  LET ev == convertEvents(r.Events)
      ln == convertLinks(r.Links)
  IN  <<Arg("StartTimestamp", AsTime(r.StartTimestamp)),
        Arg("SpanID", SpanIDToHexOrEmptyString(r.SpanID)),
        Arg("TraceID", TraceIDToHexOrEmptyString(r.TraceID)),
        Arg("ParentSpanID", SpanIDToHexOrEmptyString(r.ParentSpanID)),
        Plain("TraceState"), Plain("Name"), Plain("Kind"),
        Plain("serviceName"), Plain("resAttr"), Plain("scopeName"),
        Plain("scopeVersion"), Plain("spanAttr"),
        Arg("EndTimestamp.Sub(StartTimestamp)",
            SubNanoseconds(r.EndTimestamp, r.StartTimestamp)),
        Plain("StatusCode"), Plain("StatusMessage"),
        Arg("eventTimes", ev[1]), Arg("eventNames", ev[2]),
        Arg("eventAttrs", ev[3]),
        Arg("linksTraceIDs", ln[1]), Arg("linksSpanIDs", ln[2]),
        Arg("linksTraceStates", ln[3]), Arg("linksAttrs", ln[4])>>

\* pushTraceData: the arguments of statement.ExecContext for span r
SpanArgs(r) ==
  LET ev == convertEvents(r.Events)
      ln == convertLinks(r.Links)
  IN  <<Arg("StartTimestamp", AsTime(r.StartTimestamp)),
        Arg("TraceID", TraceIDToHexOrEmptyString(r.TraceID)),
        Arg("SpanID", SpanIDToHexOrEmptyString(r.SpanID)),
        Arg("ParentSpanID", SpanIDToHexOrEmptyString(r.ParentSpanID)),
        Plain("TraceState"), Plain("Name"), Plain("Kind"),
        Plain("serviceName"), Plain("resAttr"), Plain("scopeName"),
        Plain("scopeVersion"), Plain("spanAttr"),
        Arg("EndTimestamp.Sub(StartTimestamp)",
            SubNanoseconds(r.EndTimestamp, r.StartTimestamp)),
        Plain("StatusCode"), Plain("StatusMessage"),
        Arg("eventTimes", ev[1]), Arg("eventNames", ev[2]),
        Arg("eventAttrs", ev[3]),
        Arg("linksTraceIDs", ln[1]), Arg("linksSpanIDs", ln[2]),
        Arg("linksTraceStates", ln[3]), Arg("linksAttrs", ln[4])>>

\* a log timestamp without the fallback
LogTimestampPrimary(r) == r.Timestamp

\* timestamp := r.Timestamp(); if timestamp == 0 { timestamp =
\* r.ObservedTimestamp() }
LogTimestamp(r) == IF r.Timestamp = 0 THEN r.ObservedTimestamp ELSE r.Timestamp

\* pushLogsData: the arguments of statement.ExecContext for log record r
LogArgs(r) ==
  <<Arg("timestamp", AsTime(LogTimestamp(r))),
    Arg("TraceID", TraceIDToHexOrEmptyString(r.TraceID)),
    Arg("SpanID", SpanIDToHexOrEmptyString(r.SpanID)),
    Plain("Flags"), Plain("SeverityText"), Plain("SeverityNumber"),
    Plain("serviceName"), Plain("Body"), Plain("resURL"), Plain("resAttr"),
    Plain("scopeURL"), Plain("scopeName"), Plain("scopeVersion"),
    Plain("scopeAttr"), Plain("logAttr")>>

\* the arguments every metric insert starts with
MetricPrefixArgs ==
  <<Plain("resAttr"), Plain("ResURL"), Plain("ScopeInstr.Name"),
    Plain("ScopeInstr.Version"), Plain("scopeAttr"),
    Plain("ScopeInstr.DroppedAttributesCount"), Plain("ScopeURL"),
    Plain("serviceName"), Plain("metricName"), Plain("metricDescription"),
    Plain("metricUnit"), Plain("dp.Attributes"), Plain("dp.StartTimestamp"),
    Plain("dp.Timestamp")>>

\* the value of a number data point of the given value type
NumberValue(r) ==
  Arg("getValue",
      getValue(IF r.ValueType = "int" THEN 3 ELSE 0,
               IF r.ValueType = "double" THEN 5 ELSE 0, r.ValueType))

\* the exemplar arrays passed in the order convertExemplars returns them
SumArgsIdsAsReturned(r) ==
  LET ex == convertExemplars(r.Exemplars)
      attrs == ex[1]  times == ex[2]  values == ex[3]
      traceIDs == ex[4]  spanIDs == ex[5]
  IN  MetricPrefixArgs
        \o <<NumberValue(r), Plain("dp.Flags"),
             Arg("attrs", attrs), Arg("times", times), Arg("values", values),
             Arg("spanIDs", traceIDs), Arg("traceIDs", spanIDs),
             Plain("AggregationTemporality"), Plain("IsMonotonic")>>

\* sumMetrics.insert: the arguments of statement.ExecContext for data point r
SumArgs(r) ==
  LET ex == convertExemplars(r.Exemplars)
      attrs == ex[1]  times == ex[2]  values == ex[3]
      traceIDs == ex[4]  spanIDs == ex[5]
  IN  MetricPrefixArgs
        \o <<NumberValue(r), Plain("dp.Flags"),
             Arg("attrs", attrs), Arg("times", times), Arg("values", values),
             Arg("spanIDs", spanIDs), Arg("traceIDs", traceIDs),
             Plain("AggregationTemporality"), Plain("IsMonotonic")>>

\* gaugeMetrics.insert
GaugeArgs(r) ==
  LET ex == convertExemplars(r.Exemplars)
      attrs == ex[1]  times == ex[2]  values == ex[3]
      traceIDs == ex[4]  spanIDs == ex[5]
  IN  MetricPrefixArgs
        \o <<NumberValue(r), Plain("dp.Flags"),
             Arg("attrs", attrs), Arg("times", times), Arg("values", values),
             Arg("spanIDs", spanIDs), Arg("traceIDs", traceIDs)>>

\* a histogram row that leaves out the last bucket
HistogramArgsDropLastBucket(r) ==
  LET ex == convertExemplars(r.Exemplars)
      attrs == ex[1]  times == ex[2]  values == ex[3]
      traceIDs == ex[4]  spanIDs == ex[5]
  IN  MetricPrefixArgs
        \o <<Plain("dp.Count"), Plain("dp.Sum"),
             Arg("BucketCounts",
                 convertSliceToArraySet(
                   IF r.BucketCounts = <<>> THEN <<>>
                   ELSE SubSeq(r.BucketCounts, 1, Len(r.BucketCounts) - 1))),
             Arg("ExplicitBounds", convertSliceToArraySet(r.ExplicitBounds)),
             Arg("attrs", attrs), Arg("times", times), Arg("values", values),
             Arg("spanIDs", spanIDs), Arg("traceIDs", traceIDs),
             Plain("dp.Flags"), Plain("dp.Min"), Plain("dp.Max"),
             Plain("AggregationTemporality")>>

\* histogramMetrics.insert
HistogramArgs(r) ==
  LET ex == convertExemplars(r.Exemplars)
      attrs == ex[1]  times == ex[2]  values == ex[3]
      traceIDs == ex[4]  spanIDs == ex[5]
  IN  MetricPrefixArgs
        \o <<Plain("dp.Count"), Plain("dp.Sum"),
             Arg("BucketCounts", convertSliceToArraySet(r.BucketCounts)),
             Arg("ExplicitBounds", convertSliceToArraySet(r.ExplicitBounds)),
             Arg("attrs", attrs), Arg("times", times), Arg("values", values),
             Arg("spanIDs", spanIDs), Arg("traceIDs", traceIDs),
             Plain("dp.Flags"), Plain("dp.Min"), Plain("dp.Max"),
             Plain("AggregationTemporality")>>

\* expHistogramMetrics.insert
ExpHistogramArgs(r) ==
  LET ex == convertExemplars(r.Exemplars)
      attrs == ex[1]  times == ex[2]  values == ex[3]
      traceIDs == ex[4]  spanIDs == ex[5]
  IN  MetricPrefixArgs
        \o <<Plain("dp.Count"), Plain("dp.Sum"), Plain("dp.Scale"),
             Plain("dp.ZeroCount"), Plain("dp.Positive.Offset"),
             Arg("Positive.BucketCounts",
                 convertSliceToArraySet(r.PositiveBucketCounts)),
             Plain("dp.Negative.Offset"),
             Arg("Negative.BucketCounts",
                 convertSliceToArraySet(r.NegativeBucketCounts)),
             Arg("attrs", attrs), Arg("times", times), Arg("values", values),
             Arg("spanIDs", spanIDs), Arg("traceIDs", traceIDs),
             Plain("dp.Flags"), Plain("dp.Min"), Plain("dp.Max"),
             Plain("AggregationTemporality")>>

\* summaryMetrics.insert
SummaryArgs(r) ==
  LET qv == convertValueAtQuantile(r.QuantileValues)
  IN  MetricPrefixArgs
        \o <<Plain("dp.Count"), Plain("dp.Sum"),
             Arg("quantiles", qv[1]), Arg("values", qv[2]),
             Plain("dp.Flags")>>

\* the row builder of each signal kind
RowArgs(r) ==
  CASE r.kind = "spans"         -> SpanArgs(r)
    [] r.kind = "logs"          -> LogArgs(r)
    [] r.kind = "sum"           -> SumArgs(r)
    [] r.kind = "gauge"         -> GaugeArgs(r)
    [] r.kind = "histogram"     -> HistogramArgs(r)
    [] r.kind = "exp_histogram" -> ExpHistogramArgs(r)
    [] r.kind = "summary"       -> SummaryArgs(r)

\* the loop body of a push builds the arguments of one row of kind k
BuildRow(k) ==
  /\ rec # <<>> /\ rec.kind = k
  /\ args = <<>>
  /\ args' = RowArgs(rec)
  /\ UNCHANGED <<pushVars, offered, rec, schemaVars>>

\* SpanIDToHexOrEmptyString is applied to an identifier
EncodeSpanID ==
  /\ rec # <<>> /\ rec.kind = "span_id"
  /\ args = <<>>
  /\ args' = <<Arg("id", SpanIDToHexOrEmptyString(rec.id))>>
  /\ UNCHANGED <<pushVars, offered, rec, schemaVars>>

\* TraceIDToHexOrEmptyString is applied to an identifier
EncodeTraceID ==
  /\ rec # <<>> /\ rec.kind = "trace_id"
  /\ args = <<>>
  /\ args' = <<Arg("id", TraceIDToHexOrEmptyString(rec.id))>>
  /\ UNCHANGED <<pushVars, offered, rec, schemaVars>>

\* every bounded record of every signal kind, and every bounded identifier
InitRow ==
  /\ InitOf([k \in Kinds |-> <<>>], "spans")
  /\ SchemaIdle
  /\ rec \in Records
  /\ args = <<>>

NextRow ==
  \/ BuildRow("spans")
  \/ BuildRow("logs")
  \/ BuildRow("sum")
  \/ BuildRow("gauge")
  \/ BuildRow("histogram")
  \/ BuildRow("exp_histogram")
  \/ BuildRow("summary")
  \/ EncodeSpanID
  \/ EncodeTraceID

SpecRow == InitRow /\ [][NextRow]_vars

(* --------------------------- schema creation -------------------------- *)
MaxStarts == 2   \* calls of start over the life of the store

Exporters == {"traces", "logs"}

defaultDatabase == "default"

\* the configurations the exporters are built with
Configs == [Database : {defaultDatabase, "otel"}, CreateSchema : BOOLEAN]

\* cfg.shouldCreateSchema()
shouldCreateSchema(c) == c.CreateSchema

\* the objects the statements name
Database(name) == [type |-> "database", db |-> name, name |-> name]
TracesTable(c) == [type |-> "table", db |-> c.Database, name |-> "traces"]
TraceIDTsTable(c) ==
  [type |-> "table", db |-> c.Database, name |-> "traces_trace_id_ts"]
TraceIDTsView(c) ==
  [type |-> "view", db |-> c.Database, name |-> "traces_trace_id_ts_mv"]
LogsTable(c) == [type |-> "table", db |-> c.Database, name |-> "logs"]

\* a statement that fails on an object that is already there
CreatePlain(what, obj, needs) ==
  [what |-> what, obj |-> obj, needs |-> needs, ifNotExists |-> FALSE]

\* CREATE ... IF NOT EXISTS obj, which refers to the objects in needs
Create(what, obj, needs) ==
  [what |-> what, obj |-> obj, needs |-> needs, ifNotExists |-> TRUE]

\* fmt.Sprintf("CREATE DATABASE IF NOT EXISTS %s %s", cfg.Database, ...)
CreateDatabaseSQL(c) == Create("database", Database(c.Database), {})

\* renderCreateTracesTableSQL(cfg)
CreateTracesTableSQL(c) ==
  Create("spans", TracesTable(c), {Database(c.Database)})

\* renderCreateTraceIDTsTableSQL(cfg)
CreateTraceIDTsTableSQL(c) ==
  Create("ts", TraceIDTsTable(c), {Database(c.Database)})

\* renderTraceIDTsMaterializedViewSQL(cfg): TO the trace-id table, FROM the
\* spans table
CreateTraceIDTsViewSQL(c) ==
  Create("mv", TraceIDTsView(c),
         {Database(c.Database), TraceIDTsTable(c), TracesTable(c)})

\* renderCreateLogsTableSQL(cfg)
CreateLogsTableSQL(c) == Create("logs", LogsTable(c), {Database(c.Database)})

\* the default database is always there
Exists(st, obj) == obj \in st \/ obj = Database(defaultDatabase)

\* the store's answer to a statement, and the store it leaves
Answer(st, q) ==
  IF Exists(st, q.obj)
  THEN IF q.ifNotExists THEN [res |-> "ok", store |-> st]
       ELSE [res |-> "exists", store |-> st]
  ELSE IF \E o \in q.needs : ~Exists(st, o)
       THEN [res |-> "missing", store |-> st]
       ELSE [res |-> "ok", store |-> st \cup {q.obj}]

\* the error ExecContext returns for a result
ResultErr(res) == IF res = "ok" THEN Nil ELSE <<res>>

\* the start of exporter s has returned e: the exporter is idle again
Return(s, e) ==
  /\ sret' = e
  /\ spc' = "idle"
  /\ runs' = [runs EXCEPT ![s] = Append(@, IF e = Nil THEN "ok" ELSE "error")]

\* a createTracesTable that goes on after a failed statement
AfterDDLIgnore(res, next) == next

\* if _, err := db.ExecContext(...); err != nil { return fmt.Errorf(...) }
AfterDDL(res, next) == IF res # "ok" THEN "return" ELSE next

\* db.ExecContext(ctx, q) with what the code does on its result: the driver
\* fails, or the store answers; on an error start returns it wrapped in
\* prefix, otherwise it goes on at next (or returns nil at the end)
ExecDDL(q, prefix, next) ==
  \E failed \in BOOLEAN :
    LET a == IF failed THEN [res |-> "driver error", store |-> store]
             ELSE Answer(store, q)
        to == AfterDDL(a.res, next)
    IN  /\ store' = a.store
        /\ ddl' = Append(ddl, [what |-> q.what, obj |-> q.obj, res |-> a.res])
        /\ IF to = "return"
           THEN Return(sig, IF a.res # "ok" THEN <<prefix>> \o ResultErr(a.res)
                            ELSE Nil)
           ELSE spc' = to /\ UNCHANGED <<sret, runs>>

StartsSoFar == Len(runs["traces"]) + Len(runs["logs"])

\* start(ctx, host) of exporter s: if !e.cfg.shouldCreateSchema() { return nil }
Start(s) ==
  /\ spc = "idle"
  /\ StartsSoFar < MaxStarts
  /\ sig' = s
  /\ ddl' = <<>>
  /\ IF ~shouldCreateSchema(cfg)
     THEN Return(s, Nil)
     ELSE spc' = "createDatabase" /\ UNCHANGED <<sret, runs>>
  /\ UNCHANGED <<pushVars, offered, rowVars, cfg, store, target>>

\* createDatabase: if cfg.Database == defaultDatabase { return nil }; else
\* targetDatabase := cfg.Database; cfg.Database = defaultDatabase
CreateDatabaseEnter ==
  /\ spc = "createDatabase"
  /\ IF cfg.Database = defaultDatabase
     THEN spc' = "createTable" /\ UNCHANGED <<cfg, target>>
     ELSE /\ target' = cfg.Database
          /\ cfg' = [cfg EXCEPT !.Database = defaultDatabase]
          /\ spc' = "buildDB"
  /\ UNCHANGED <<pushVars, offered, rowVars, store, sig, ddl, sret, runs>>

\* cfg.buildDB(): opens a client from the configuration, which it only
\* reads; the outcomes are the configuration it leaves and its error
buildDB(c) == {[cfg |-> c, err |-> e] : e \in {Nil, <<"driver error">>}}

\* a createDatabase that does not put the database name back
BuildDBKeepDefault ==
  /\ spc = "buildDB"
  /\ \E r \in buildDB(cfg) :
       /\ cfg' = r.cfg
       /\ IF r.err = Nil
          THEN spc' = "execCreateDatabase" /\ UNCHANGED <<sret, runs>>
          ELSE Return(sig, <<"can't connect to clickhouse">> \o r.err)
  /\ UNCHANGED <<pushVars, offered, rowVars, store, sig, target, ddl>>

\* db, err := cfg.buildDB(); cfg.Database = targetDatabase; if err != nil {
\* return fmt.Errorf("can't connect to clickhouse: %w", err) }
BuildDB ==
  /\ spc = "buildDB"
  /\ \E r \in buildDB(cfg) :
       /\ cfg' = [r.cfg EXCEPT !.Database = target]
       /\ IF r.err = Nil
          THEN spc' = "execCreateDatabase" /\ UNCHANGED <<sret, runs>>
          ELSE Return(sig, <<"can't connect to clickhouse">> \o r.err)
  /\ UNCHANGED <<pushVars, offered, rowVars, store, sig, target, ddl>>

\* _, err = db.ExecContext(ctx, query); "create database: %w"
ExecCreateDatabase ==
  /\ spc = "execCreateDatabase"
  /\ ExecDDL(CreateDatabaseSQL(cfg), "create database", "createTable")
  /\ UNCHANGED <<pushVars, offered, rowVars, cfg, sig, target>>

\* start goes on to createTracesTable or createLogsTable
CreateTableEnter ==
  /\ spc = "createTable"
  /\ spc' = IF sig = "traces" THEN "tracesTable" ELSE "logsTable"
  /\ UNCHANGED <<pushVars, offered, rowVars, cfg, store, sig, target, ddl,
                 sret, runs>>

\* createTracesTable, first statement
ExecCreateTracesTable ==
  /\ spc = "tracesTable"
  /\ ExecDDL(CreateTracesTableSQL(cfg), "exec create traces table sql",
             "traceIDTsTable")
  /\ UNCHANGED <<pushVars, offered, rowVars, cfg, sig, target>>

\* createTracesTable, second statement
ExecCreateTraceIDTsTable ==
  /\ spc = "traceIDTsTable"
  /\ ExecDDL(CreateTraceIDTsTableSQL(cfg),
             "exec create traceID timestamp table sql", "traceIDTsView")
  /\ UNCHANGED <<pushVars, offered, rowVars, cfg, sig, target>>

\* createTracesTable, third statement and return nil
ExecCreateTraceIDTsView ==
  /\ spc = "traceIDTsView"
  /\ ExecDDL(CreateTraceIDTsViewSQL(cfg),
             "exec create traceID timestamp view sql", "return")
  /\ UNCHANGED <<pushVars, offered, rowVars, cfg, sig, target>>

\* createLogsTable
ExecCreateLogsTable ==
  /\ spc = "logsTable"
  /\ ExecDDL(CreateLogsTableSQL(cfg), "exec create logs table sql", "return")
  /\ UNCHANGED <<pushVars, offered, rowVars, cfg, sig, target>>

\* a fresh store and exporters built with any configuration
InitSchema ==
  /\ InitOf([k \in Kinds |-> <<>>], "spans")
  /\ RowIdle
  /\ cfg \in Configs
  /\ store = {}
  /\ sig = "traces"
  /\ spc = "idle"
  /\ target = ""
  /\ ddl = <<>>
  /\ sret = Nil
  /\ runs = [s \in Exporters |-> <<>>]

NextSchema ==
  \/ \E s \in Exporters : Start(s)
  \/ CreateDatabaseEnter
  \/ BuildDB
  \/ ExecCreateDatabase
  \/ CreateTableEnter
  \/ ExecCreateTracesTable
  \/ ExecCreateTraceIDTsTable
  \/ ExecCreateTraceIDTsView
  \/ ExecCreateLogsTable

SpecSchema == InitSchema /\ [][NextSchema]_vars

(* ------------------------ vocabulary of the claims -------------------- *)
InFlight(p) == pc[p] \notin {"idle", "done"}
Returned(p) == pc[p] = "done"

\* the records the batch of push p holds, as paths of the tree
Paths(p) ==
  IF kind[p] \in TreeKinds
  THEN UNION {UNION {{<<i, j, k>> : k \in 1..td[p][i][j]} :
                j \in 1..Len(td[p][i])} : i \in 1..Len(td[p])}
  ELSE UNION {{<<m, d>> : d \in 1..acc[p].models[m]} :
                m \in 1..Len(acc[p].models)}

Submitted(p) == Cardinality(Paths(p))

\* tree-walk (lexicographic) order on paths of equal length
LexLess(a, b) ==
  \E n \in 1..Len(a) : a[n] < b[n] /\ \A m \in 1..(n - 1) : a[m] = b[m]

\* s lists, in tree-walk order and without gap, the first Len(s) paths of P
WalkPrefix(s, P) ==
  \A n \in 1..Len(s) :
    s[n] \in P /\ Cardinality({q \in P : LexLess(q, s[n])}) = n - 1

\* s lists every path of P in tree-walk order
WholeWalk(s, P) == WalkPrefix(s, P) /\ Len(s) = Cardinality(P)

Idx(p, op) == {n \in 1..Len(calls[p]) : calls[p][n].op = op}
OkIdx(p, op) == {n \in Idx(p, op) : calls[p][n].ok}
FailIdx(p, op) == {n \in Idx(p, op) : ~calls[p][n].ok}

Phases == {"Begin", "Prepare", "Exec", "Commit"}

\* the calls of the four phases that returned an error
Failures(p) == UNION {FailIdx(p, op) : op \in Phases}

\* the paths handed to statement.ExecContext, in call order
Executions(p) ==
  LET ex == SelectSeq(calls[p], LAMBDA e : e.op = "Exec")
  IN  [n \in 1..Len(ex) |-> ex[n].arg]

\* rows of push p visible in table k
VisibleIn(k, p) == SelectSeq(table[k], LAMBDA r : r[1] = p)

\* paths of the rows of push p visible in table k
VisiblePaths(k, p) ==
  LET v == VisibleIn(k, p) IN [n \in 1..Len(v) |-> v[n][2]]

\* rows of table k that do not come from push p
OthersIn(tb, k, p) == SelectSeq(tb[k], LAMBDA r : r[1] # p)

(* ------------------------------ claims -------------------------------- *)
\* C1: atomicity per push and signal kind.  When a push has returned and one
\* of its row executions failed, every table is in its pre-push state (no
\* row of the push is visible); when every phase succeeded, the table of
\* the push's kind is its pre-push content followed by exactly the
\* submitted rows, still there after the deferred rollback has run.
C1_Atomicity ==
  \A p \in Pushes :
    Returned(p) =>
      /\ FailIdx(p, "Exec") # {} => table = pre[p]
      /\ (OkIdx(p, "Commit") # {}) =>
           /\ OkIdx(p, "Rollback") = {} /\ Idx(p, "Rollback") # {}
           /\ \A k \in Kinds \ {kind[p]} : table[k] = pre[p][k]
           /\ table[kind[p]] = pre[p][kind[p]] \o VisibleIn(kind[p], p)
           /\ Len(VisibleIn(kind[p], p)) = Submitted(p)
           /\ WholeWalk(VisiblePaths(kind[p], p), Paths(p))

\* a push that failed on a row after an earlier row had been executed, over
\* a table that already held rows
C1_Witness ==
  \E p \in Pushes :
    /\ Returned(p)
    /\ FailIdx(p, "Exec") # {} /\ OkIdx(p, "Exec") # {}
    /\ pre[p][kind[p]] # <<>>

\* C2: Commit is invoked only after Begin, the prepare and every row
\* execution of the push returned without error, never after a failed call,
\* and at most once per transaction.
C2_CommitAfterAllRows ==
  \A p \in Pushes :
    /\ Cardinality(Idx(p, "Commit")) <= 1
    /\ \A c \in Idx(p, "Commit") :
         /\ \E b \in OkIdx(p, "Begin") : b < c
         /\ \E s \in OkIdx(p, "Prepare") : s < c
         /\ \A f \in Failures(p) : f >= c
         /\ Cardinality({e \in OkIdx(p, "Exec") : e < c}) = Submitted(p)

\* a commit that followed at least two row executions
C2_Witness ==
  \E p \in Pushes : Idx(p, "Commit") # {} /\ Cardinality(OkIdx(p, "Exec")) >= 2

\* C3: the statement is prepared once, after Begin and before the first
\* row execution, and the k-th execution carries the k-th record of the
\* tree walk: no record twice, none skipped; a push that reaches Commit has
\* executed every record.
C3_PrepareOnceWalkOrder ==
  \A p \in Pushes :
    /\ Cardinality(Idx(p, "Prepare")) <= 1
    /\ \A s \in Idx(p, "Prepare") : \E b \in OkIdx(p, "Begin") : b < s
    /\ \A e \in Idx(p, "Exec") : \E s \in OkIdx(p, "Prepare") : s < e
    /\ pc[p] \in {"loop", "execing", "commit"} =>
         Cardinality(OkIdx(p, "Prepare")) = 1
    /\ WalkPrefix(Executions(p), Paths(p))
    /\ Idx(p, "Commit") # {} => WholeWalk(Executions(p), Paths(p))

\* a traces/logs push over two resources whose three or more records were
\* all executed
C3_Witness ==
  \E p \in Pushes :
    /\ kind[p] \in TreeKinds /\ Len(td[p]) >= 2
    /\ \E i \in 1..Len(td[p]) : Len(td[p][i]) = 0 \/ td[p][i][1] = 0
    /\ Len(Executions(p)) >= 2
    /\ Idx(p, "Commit") # {}

\* C4: the first row execution that returns an error ends the push: no
\* later row is executed, Commit is never called, the transaction is rolled
\* back and the push returns an error.
C4_AbortOnFirstExecError ==
  \A p \in Pushes :
    \A f \in FailIdx(p, "Exec") :
      /\ \A e \in Idx(p, "Exec") : e <= f
      /\ Idx(p, "Commit") = {}
      /\ pc[p] \in {"rollback", "done"}
      /\ Returned(p) =>
           /\ ret[p] # Nil
           /\ OkIdx(p, "Rollback") # {}
           /\ txs[tx[p]].state = "rolledback"

\* a push that returned after a row failed while later rows were waiting
C4_Witness ==
  \E p \in Pushes :
    /\ Returned(p)
    /\ FailIdx(p, "Exec") # {}
    /\ Len(Executions(p)) < Submitted(p)

\* C5: a push that has returned holds nothing: its statement, if one was
\* prepared, has been closed once, and its transaction, if one was begun, is
\* done; an open transaction or statement always belongs to a push in flight.
C5_ResourcesReleased ==
  /\ \A p \in Pushes :
       Returned(p) =>
         /\ (OkIdx(p, "Begin") # {}) = (tx[p] # 0)
         /\ tx[p] # 0 =>
              txs[tx[p]].state \in {"committed", "rolledback", "failed"}
         /\ (OkIdx(p, "Prepare") # {}) = (stmt[p] # 0)
         /\ stmt[p] # 0 => stmts[stmt[p]].closed
         /\ Cardinality(Idx(p, "Close")) = Cardinality(OkIdx(p, "Prepare"))
  /\ \A id \in DOMAIN txs :
       txs[id].state = "open" => \E p \in Pushes : InFlight(p) /\ tx[p] = id
  /\ \A id \in DOMAIN stmts :
       ~stmts[id].closed => \E p \in Pushes : InFlight(p) /\ stmt[p] = id

\* a push that returned on the error path of a row execution, with its
\* statement closed and its transaction rolled back
C5_Witness ==
  \E p \in Pushes :
    /\ Returned(p)
    /\ FailIdx(p, "Exec") # {}
    /\ stmt[p] # 0 /\ stmts[stmt[p]].closed
    /\ tx[p] # 0 /\ txs[tx[p]].state = "rolledback"

\* the stages at which the context of a push was cancelled while the push
\* was in flight: before Begin, during the prepare, between two row
\* executions, during a row execution
InFlightStages == {"beforeBegin", "preparing", "betweenRows", "execing"}

\* C6: a push that opened a transaction and whose context was cancelled
\* in flight does not commit, attempts the rollback, returns an error and
\* leaves no transaction open.
C6_CancelMeansNoCommit ==
  \A p \in Pushes :
    (Returned(p) /\ cancelAt[p] \in InFlightStages /\ OkIdx(p, "Begin") # {})
      => /\ Idx(p, "Commit") = {}
         /\ Idx(p, "Rollback") # {}
         /\ ret[p] # Nil
         /\ txs[tx[p]].state # "open"

\* C7: concurrent pushes are isolated.  The insert SQL of the exporters is
\* never written; pushes hold pairwise distinct transactions and
\* statements and a push's statement belongs to its own transaction; a
\* transaction holds rows of its own push only; rows of a push are visible
\* in the table of its kind only, never before its commit, and once it has
\* returned they are what the push run alone leaves: every submitted row in
\* walk order if it returned nil, none otherwise.
C7_Isolation ==
  /\ insertSQL = [k \in Kinds |-> k]
  /\ \A p \in Pushes : \A q \in Pushes \ {p} :
       /\ tx[p] # 0 => tx[p] # tx[q]
       /\ stmt[p] # 0 => stmt[p] # stmt[q]
  /\ \A p \in Pushes : stmt[p] # 0 => stmts[stmt[p]].tx = tx[p]
  /\ \A id \in DOMAIN txs : \A n \in 1..Len(txs[id].pending) :
       \E p \in Pushes : tx[p] = id /\ txs[id].pending[n].row[1] = p
  /\ \A p \in Pushes :
       /\ \A k \in Kinds \ {kind[p]} : VisibleIn(k, p) = <<>>
       /\ pc[p] \notin {"rollback", "done"} => VisibleIn(kind[p], p) = <<>>
       /\ Returned(p) =>
            IF ret[p] = Nil
            THEN WholeWalk(VisiblePaths(kind[p], p), Paths(p))
            ELSE VisibleIn(kind[p], p) = <<>>

\* two pushes in flight at once, each with rows pending in its own open
\* transaction
C7_Witness ==
  \E p \in Pushes, q \in Pushes :
    /\ p # q /\ tx[p] # 0 /\ tx[q] # 0
    /\ txs[tx[p]].state = "open" /\ txs[tx[p]].pending # <<>>
    /\ txs[tx[q]].state = "open" /\ txs[tx[q]].pending # <<>>

\* C8: no failure is swallowed and nothing is retried.  A push returns nil
\* exactly when none of its calls failed; a push that returned nil either
\* made no call at all (a metric kind without rows) or went through Begin,
\* the prepare, one successful execution per row and Commit; a failed
\* Commit yields an error; Begin, prepare and Commit are called at most
\* once, no record is executed twice and no call follows a failed one.
C8_NoSwallowNoRetry ==
  \A p \in Pushes :
    /\ Returned(p) =>
         /\ (ret[p] = Nil) = (Failures(p) = {})
         /\ FailIdx(p, "Commit") # {} => ret[p] # Nil
         /\ ret[p] = Nil =>
              \/ calls[p] = <<>> /\ Submitted(p) = 0
              \/ /\ OkIdx(p, "Begin") # {} /\ OkIdx(p, "Prepare") # {}
                 /\ Cardinality(OkIdx(p, "Exec")) = Submitted(p)
                 /\ OkIdx(p, "Commit") # {}
    /\ \A op \in {"Begin", "Prepare", "Commit"} : Cardinality(Idx(p, op)) <= 1
    /\ \A m, n \in 1..Len(Executions(p)) :
         m # n => Executions(p)[m] # Executions(p)[n]
    /\ \A f \in Failures(p) : \A n \in (f + 1)..Len(calls[p]) :
         calls[p][n].op \notin Phases

\* a push whose rows were all executed and whose Commit failed
C8_Witness ==
  \E p \in Pushes :
    /\ Returned(p)
    /\ FailIdx(p, "Commit") # {}
    /\ Submitted(p) >= 1 /\ Cardinality(OkIdx(p, "Exec")) = Submitted(p)
    /\ ret[p] # Nil

\* the text by which an error names a phase, and a signal kind
PhaseTag(op) ==
  CASE op = "Begin"   -> "db.Begin"
    [] op = "Prepare" -> "PrepareContext"
    [] op = "Exec"    -> "ExecContext"
    [] op = "Commit"  -> "Commit"

SignalTag(k) == IF k \in MetricKinds THEN InsertFailPrefix(k) ELSE k

Tags(e) == {e[n] : n \in 1..Len(e)}

\* C9: every error a push returns names the phase that failed and the
\* signal kind of the push.
C9_ErrorNamesPhaseAndSignal ==
  \A p \in Pushes :
    (Returned(p) /\ ret[p] # Nil) =>
      /\ \A op \in Phases : FailIdx(p, op) # {} => PhaseTag(op) \in Tags(ret[p])
      /\ SignalTag(kind[p]) \in Tags(ret[p])

\* C10: a push whose kind has no row calls neither Begin nor
\* PrepareContext, makes no call on the client at all, and returns nil.
C10_EmptyPushOpensNothing ==
  \A p \in Pushes :
    Submitted(p) = 0 => calls[p] = <<>> /\ ret[p] = Nil

\* the metrics Add was handed whose aggregation kind is the accumulator's
Accepted(p) == SelectSeq(offered[p], LAMBDA o : o.type = kind[p])

\* those of another aggregation kind
Mismatched(p) == SelectSeq(offered[p], LAMBDA o : o.type # kind[p])

\* C11: Add with a metric whose aggregation kind is not the accumulator's
\* returns the error naming the expected type and has no effect: the models
\* the accumulator holds are exactly the metrics of its own kind, in call
\* order, its count is the number of their data points, and every row a
\* later insert executes is a data point of one of them.
C11_AddRejectsOtherKinds ==
  \A p \in Pushes :
    /\ \A i \in 1..Len(offered[p]) :
         IF offered[p][i].type # kind[p]
         THEN offered[p][i].err = TypeErr(kind[p]) /\ offered[p][i].err # Nil
         ELSE offered[p][i].err = Nil
    /\ acc[p].models = [i \in 1..Len(Accepted(p)) |-> Accepted(p)[i].n]
    /\ acc[p].count = SumSeq([i \in 1..Len(Accepted(p)) |-> Accepted(p)[i].n])
    /\ \A e \in 1..Len(Executions(p)) :
         /\ Executions(p)[e][1] \in 1..Len(Accepted(p))
         /\ Executions(p)[e][2] \in 1..Accepted(p)[Executions(p)[e][1]].n
    /\ Len(Executions(p)) <= acc[p].count

\* an accumulator that was handed a metric of another kind with data points
\* and then one of its own, and whose insert committed
C11_Witness ==
  \E p \in Pushes :
    /\ Len(offered[p]) >= 2
    /\ offered[p][1].type # kind[p] /\ offered[p][1].n >= 1
    /\ offered[p][2].type = kind[p] /\ offered[p][2].n >= 1
    /\ Returned(p) /\ OkIdx(p, "Commit") # {}

\* a row builder has built the arguments of a row of kind k
Built(k) == rec # <<>> /\ rec.kind = k /\ args # <<>>

\* position of a column in the INSERT statement of kind k
Col(k, name) ==
  CHOOSE i \in 1..Len(InsertColumns(k)) : InsertColumns(k)[i] = name

\* the argument that lands in the named column of the row that was built
ColVal(name) == args[Col(rec.kind, name)].v

\* the field each column is meant to hold: <<column, expression>>
SpanFields ==
  {<<"Timestamp", "StartTimestamp">>, <<"TraceId", "TraceID">>,
   <<"SpanId", "SpanID">>, <<"ParentSpanId", "ParentSpanID">>,
   <<"TraceState", "TraceState">>, <<"SpanName", "Name">>,
   <<"SpanKind", "Kind">>, <<"ServiceName", "serviceName">>,
   <<"ResourceAttributes", "resAttr">>, <<"ScopeName", "scopeName">>,
   <<"ScopeVersion", "scopeVersion">>, <<"SpanAttributes", "spanAttr">>,
   <<"Duration", "EndTimestamp.Sub(StartTimestamp)">>,
   <<"StatusCode", "StatusCode">>, <<"StatusMessage", "StatusMessage">>,
   <<"Events.Timestamp", "eventTimes">>, <<"Events.Name", "eventNames">>,
   <<"Events.Attributes", "eventAttrs">>,
   <<"Links.TraceId", "linksTraceIDs">>, <<"Links.SpanId", "linksSpanIDs">>,
   <<"Links.TraceState", "linksTraceStates">>,
   <<"Links.Attributes", "linksAttrs">>}

LogFields ==
  {<<"Timestamp", "timestamp">>, <<"TraceId", "TraceID">>,
   <<"SpanId", "SpanID">>, <<"TraceFlags", "Flags">>,
   <<"SeverityText", "SeverityText">>,
   <<"SeverityNumber", "SeverityNumber">>,
   <<"ServiceName", "serviceName">>, <<"Body", "Body">>,
   <<"ResourceSchemaUrl", "resURL">>, <<"ResourceAttributes", "resAttr">>,
   <<"ScopeSchemaUrl", "scopeURL">>, <<"ScopeName", "scopeName">>,
   <<"ScopeVersion", "scopeVersion">>, <<"ScopeAttributes", "scopeAttr">>,
   <<"LogAttributes", "logAttr">>}

MetricFields ==
  {<<"ResourceAttributes", "resAttr">>, <<"ResourceSchemaUrl", "ResURL">>,
   <<"ScopeName", "ScopeInstr.Name">>,
   <<"ScopeVersion", "ScopeInstr.Version">>,
   <<"ScopeAttributes", "scopeAttr">>,
   <<"ScopeDroppedAttrCount", "ScopeInstr.DroppedAttributesCount">>,
   <<"ScopeSchemaUrl", "ScopeURL">>, <<"ServiceName", "serviceName">>,
   <<"MetricName", "metricName">>,
   <<"MetricDescription", "metricDescription">>,
   <<"MetricUnit", "metricUnit">>, <<"Attributes", "dp.Attributes">>,
   <<"StartTimeUnix", "dp.StartTimestamp">>,
   <<"TimeUnix", "dp.Timestamp">>, <<"Value", "getValue">>,
   <<"Flags", "dp.Flags">>,
   <<"Exemplars.FilteredAttributes", "attrs">>,
   <<"Exemplars.TimeUnix", "times">>, <<"Exemplars.Value", "values">>,
   <<"Exemplars.SpanId", "spanIDs">>, <<"Exemplars.TraceId", "traceIDs">>,
   <<"AggregationTemporality", "AggregationTemporality">>,
   <<"IsMonotonic", "IsMonotonic">>, <<"Count", "dp.Count">>,
   <<"Sum", "dp.Sum">>, <<"BucketCounts", "BucketCounts">>,
   <<"ExplicitBounds", "ExplicitBounds">>, <<"Min", "dp.Min">>,
   <<"Max", "dp.Max">>, <<"Scale", "dp.Scale">>,
   <<"ZeroCount", "dp.ZeroCount">>,
   <<"PositiveOffset", "dp.Positive.Offset">>,
   <<"PositiveBucketCounts", "Positive.BucketCounts">>,
   <<"NegativeOffset", "dp.Negative.Offset">>,
   <<"NegativeBucketCounts", "Negative.BucketCounts">>,
   <<"ValueAtQuantiles.Quantile", "quantiles">>,
   <<"ValueAtQuantiles.Value", "values">>}

FieldsOf(k) ==
  CASE k = "spans" -> SpanFields
    [] k = "logs"  -> LogFields
    [] OTHER       -> MetricFields

\* the arguments of the built row are, position for position, the fields of
\* the columns the INSERT statement of its kind lists
ArgsMatchInsert(k) ==
  /\ Len(args) = Placeholders(k)
  /\ Len(InsertColumns(k)) = Placeholders(k)
  /\ \A i \in 1..Len(args) :
       i <= Len(InsertColumns(k))
         /\ <<InsertColumns(k)[i], args[i].f>> \in FieldsOf(k)

\* C12 (as claimed): for the row of every signal kind the arguments, the
\* INSERT column list and its placeholders agree position for position, and
\* the INSERT column list is exactly the column list of CREATE TABLE.
C12_ColumnsAgree ==
  \A k \in Kinds :
    Built(k) => ArgsMatchInsert(k) /\ InsertColumns(k) = TableColumns(k)

\* the columns of the table that have no DEFAULT expression
StoredColumns(k) ==
  SelectSeq(TableColumns(k), LAMBDA c : c \notin DefaultColumns(k))

\* C12 (amended): for the row of every signal kind the arguments, the
\* INSERT column list and its placeholders agree position for position, and
\* the INSERT column list is the column list of CREATE TABLE, in the same
\* order, without the columns the table computes by a DEFAULT expression.
C12_ColumnsAgreeButDefaults ==
  \A k \in Kinds :
    Built(k) => ArgsMatchInsert(k) /\ InsertColumns(k) = StoredColumns(k)

\* a log row, whose table has the defaulted column TimestampTime
C12_Witness == Built("logs") /\ Len(TableColumns("logs")) > Len(args)

\* the value of a lowercase hexadecimal digit
HexVal(c) ==
  CASE c = "0" -> 0 [] c = "1" -> 1 [] c = "2" -> 2 [] c = "3" -> 3
    [] c = "4" -> 4 [] c = "5" -> 5 [] c = "6" -> 6 [] c = "7" -> 7
    [] c = "8" -> 8 [] c = "9" -> 9 [] c = "a" -> 10 [] c = "b" -> 11
    [] c = "c" -> 12 [] c = "d" -> 13 [] c = "e" -> 14 [] c = "f" -> 15
    [] OTHER -> 0 - 1

\* s is the encoding of identifier id of n bytes
HexOrEmpty(id, n, s) ==
  /\ Len(id) = n
  /\ IF \A i \in 1..n : id[i] = 0
     THEN s = <<>>
     ELSE /\ Len(s) = 2 * n
          /\ \A i \in 1..n :
               /\ HexVal(s[2 * i - 1]) \in 0..15
               /\ HexVal(s[2 * i]) \in 0..15
               /\ 16 * HexVal(s[2 * i - 1]) + HexVal(s[2 * i]) = id[i]

\* C14: the encoding of an 8-byte span identifier or 16-byte trace
\* identifier is the empty string when every byte is zero, and otherwise
\* the lowercase hexadecimal string of twice its length whose i-th pair of
\* characters encodes the i-th byte; so are the identifiers of span and log
\* rows.
C14_HexOrEmpty ==
  /\ Built("span_id") => HexOrEmpty(rec.id, SpanIDLen, args[1].v)
  /\ Built("trace_id") => HexOrEmpty(rec.id, TraceIDLen, args[1].v)
  /\ \A k \in TreeKinds :
       Built(k) =>
         /\ HexOrEmpty(rec.TraceID, TraceIDLen, ColVal("TraceId"))
         /\ HexOrEmpty(rec.SpanID, SpanIDLen, ColVal("SpanId"))
  /\ Built("spans") =>
       HexOrEmpty(rec.ParentSpanID, SpanIDLen, ColVal("ParentSpanId"))

\* a trace identifier with leading zero bytes and one non-zero byte, encoded
C14_Witness ==
  /\ Built("trace_id")
  /\ rec.id[1] = 0 /\ rec.id[TraceIDLen] = 241
  /\ Len(args[1].v) = 32

\* C15 (as claimed): the bucket-count array of every histogram row has
\* exactly one more element than its explicit-bounds array.
C15_BucketsOneMoreThanBounds ==
  Built("histogram") =>
    Len(ColVal("BucketCounts")) = Len(ColVal("ExplicitBounds")) + 1

\* a and b hold the same elements in the same order
SameElements(a, b) == Len(a) = Len(b) /\ \A i \in 1..Len(a) : a[i] = b[i]

\* C15 (amended): the bucket-count array and the explicit-bounds array of
\* every histogram row are the data point's own arrays, element for element;
\* the row has one more bucket count than bounds exactly when the data point
\* has.
C15_BucketsAndBoundsPreserved ==
  Built("histogram") =>
    /\ SameElements(ColVal("BucketCounts"), rec.BucketCounts)
    /\ SameElements(ColVal("ExplicitBounds"), rec.ExplicitBounds)
    /\ (Len(ColVal("BucketCounts")) = Len(ColVal("ExplicitBounds")) + 1)
         <=> (Len(rec.BucketCounts) = Len(rec.ExplicitBounds) + 1)

\* a histogram row of a data point with two buckets around one bound
C15_Witness ==
  /\ Built("histogram")
  /\ Len(rec.BucketCounts) = 2 /\ Len(rec.ExplicitBounds) = 1
  /\ rec.BucketCounts[1] # rec.BucketCounts[2]

ExemplarKinds == {"sum", "gauge", "histogram", "exp_histogram"}

\* the number an exemplar carries
ExemplarNumber(x) == IF x.ValueType = "int" THEN x.IntValue ELSE x.DoubleValue

\* C16: the five exemplar arrays of the row of a data point with N
\* exemplars have length N each, their i-th elements describe the i-th
\* exemplar, and the span ids are in column Exemplars.SpanId and the trace
\* ids in column Exemplars.TraceId.
C16_ExemplarArraysAligned ==
  \A k \in ExemplarKinds :
    Built(k) =>
      LET N == Len(rec.Exemplars)
      IN  /\ \A c \in 1..5 : Len(ColVal(ExemplarColumns[c])) = N
          /\ \A i \in 1..N :
               LET x == rec.Exemplars[i]
               IN  /\ ColVal("Exemplars.FilteredAttributes")[i]
                        = [json |-> x.FilteredAttributes]
                   /\ ColVal("Exemplars.TimeUnix")[i].unixNano = x.Timestamp
                   /\ ColVal("Exemplars.Value")[i] = ExemplarNumber(x)
                   /\ HexOrEmpty(x.SpanID, SpanIDLen,
                                 ColVal("Exemplars.SpanId")[i])
                   /\ HexOrEmpty(x.TraceID, TraceIDLen,
                                 ColVal("Exemplars.TraceId")[i])

\* a sum row of a data point with two different exemplars
C16_Witness ==
  /\ Built("sum")
  /\ Len(rec.Exemplars) = 2 /\ rec.Exemplars[1] # rec.Exemplars[2]

\* C17: the Duration of a span row is end minus start and is never
\* negative: no row carries the negative difference of a span that ends
\* before it starts.
C17_DurationNeverNegative ==
  Built("spans") =>
    /\ ColVal("Duration") = rec.EndTimestamp - rec.StartTimestamp
    /\ ColVal("Duration") >= 0

\* C18: the Timestamp of a log row is the record's timestamp when that is
\* not zero and its observed timestamp otherwise, zero when both are zero.
C18_LogTimestampFallback ==
  Built("logs") =>
    /\ rec.Timestamp # 0 => ColVal("Timestamp").unixNano = rec.Timestamp
    /\ rec.Timestamp = 0 =>
         ColVal("Timestamp").unixNano = rec.ObservedTimestamp
    /\ (rec.Timestamp = 0 /\ rec.ObservedTimestamp = 0) =>
         ColVal("Timestamp").unixNano = 0

\* a log row of a record that has only an observed timestamp
C18_Witness ==
  Built("logs") /\ rec.Timestamp = 0 /\ rec.ObservedTimestamp = MaxTime

\* C19: the three event arrays of a span row have one element per event and
\* the four link arrays one per link, and the i-th elements are those of
\* the i-th event and the i-th link of the span.
C19_EventAndLinkArraysAligned ==
  Built("spans") =>
    /\ \A c \in {"Events.Timestamp", "Events.Name", "Events.Attributes"} :
         Len(ColVal(c)) = Len(rec.Events)
    /\ \A c \in {"Links.TraceId", "Links.SpanId", "Links.TraceState",
                 "Links.Attributes"} :
         Len(ColVal(c)) = Len(rec.Links)
    /\ \A i \in 1..Len(rec.Events) :
         /\ ColVal("Events.Timestamp")[i].unixNano = rec.Events[i].Timestamp
         /\ ColVal("Events.Name")[i] = rec.Events[i].Name
         /\ ColVal("Events.Attributes")[i]
              = [json |-> rec.Events[i].Attributes]
    /\ \A i \in 1..Len(rec.Links) :
         /\ HexOrEmpty(rec.Links[i].TraceID, TraceIDLen,
                       ColVal("Links.TraceId")[i])
         /\ HexOrEmpty(rec.Links[i].SpanID, SpanIDLen,
                       ColVal("Links.SpanId")[i])
         /\ ColVal("Links.TraceState")[i] = rec.Links[i].TraceState
         /\ ColVal("Links.Attributes")[i] = [json |-> rec.Links[i].Attributes]

\* a span row of a span with two different events and two different links
C19_Witness ==
  /\ Built("spans")
  /\ Len(rec.Events) = 2 /\ rec.Events[1] # rec.Events[2]
  /\ Len(rec.Links) = 2 /\ rec.Links[1] # rec.Links[2]

\* the statements of createTracesTable / createLogsTable the running (or
\* last) start issued, in order
TableDDL == SelectSeq(ddl, LAMBDA d : d.what # "database")

\* the order createTracesTable is meant to issue its statements in
TracesOrder == <<"spans", "ts", "mv">>

\* the schema creation of the exporter whose start is running has already
\* succeeded on this store
Rerun == spc # "idle" /\ \E i \in 1..Len(runs[sig]) : runs[sig][i] = "ok"

\* the connection, not the store, failed the last call
ConnectionFailed(r, d) ==
  \/ r = <<"can't connect to clickhouse", "driver error">>
  \/ d # <<>> /\ d[Len(d)].res = "driver error"

\* C13: schema setup is idempotent.  Every step of a start that runs again
\* on a store on which the same exporter's schema creation had succeeded
\* leaves the objects of the store as they are, no statement is rejected by
\* the store, and the start returns nil unless the connection fails.
C13_SchemaSetupIdempotent ==
  [][Rerun =>
       /\ store' = store
       /\ \A i \in 1..Len(ddl') : ddl'[i].res \in {"ok", "driver error"}
       /\ spc' = "idle" => (sret' = Nil \/ ConnectionFailed(sret', ddl'))]_vars

\* the traces exporter has created its schema in a database of its own
\* twice, the second time issuing all four statements again
C13_Witness ==
  /\ spc = "idle" /\ sig = "traces" /\ cfg.Database # defaultDatabase
  /\ runs["traces"] = <<"ok", "ok">>
  /\ Len(ddl) = 4 /\ sret = Nil

\* C20: createTracesTable issues its statements in the order spans table,
\* trace-id table, materialized view and stops at the first one that fails:
\* a failed statement is the last one issued and start returns an error; the
\* view statement is issued only after both table statements succeeded, and
\* the view exists only in a store that has both tables.
C20_TracesDDLInOrder ==
  /\ sig = "traces" =>
       /\ Len(TableDDL) <= 3
       /\ \A i \in 1..Len(TableDDL) :
            /\ TableDDL[i].what = TracesOrder[i]
            /\ TableDDL[i].res # "ok" =>
                 /\ i = Len(TableDDL)
                 /\ spc = "idle" /\ sret # Nil
            /\ i < Len(TableDDL) => TableDDL[i].res = "ok"
       /\ (spc = "idle" /\ Len(TableDDL) = 3 /\ TableDDL[3].res = "ok")
            => sret = Nil
  /\ \A o \in store :
       o.type = "view" =>
         \E t1 \in store, t2 \in store :
           /\ t1.type = "table" /\ t1.name = "traces" /\ t1.db = o.db
           /\ t2.type = "table" /\ t2.name = "traces_trace_id_ts"
           /\ t2.db = o.db

\* a start of the traces exporter whose spans table was created and whose
\* trace-id table statement failed
C20_Witness ==
  /\ sig = "traces" /\ spc = "idle"
  /\ Len(TableDDL) = 2
  /\ TableDDL[1].res = "ok" /\ TableDDL[2].res # "ok"
  /\ sret # Nil
  /\ \E o \in store : o.name = "traces"

\* the data points of the models the accumulator of push p holds
DataPointsHeld(p) == SumSeq(acc[p].models)

\* insert returned at its count check, without a call on the client
Skipped(p) == Returned(p) /\ calls[p] = <<>>

\* C21: after any sequence of Add calls, failing ones included, the count of
\* a metric accumulator is the number of data points of the models it
\* holds; an insert none of whose calls failed has executed exactly that
\* many rows, and insert is skipped exactly when no held model has a data
\* point.
C21_CountIsDataPoints ==
  \A p \in Pushes :
    kind[p] \in MetricKinds =>
      /\ acc[p].count = DataPointsHeld(p)
      /\ (Returned(p) /\ Failures(p) = {}) =>
           /\ Len(Executions(p)) = acc[p].count
           /\ ret[p] = Nil
      /\ Returned(p) =>
           (Skipped(p) <=> \A m \in 1..Len(acc[p].models) : acc[p].models[m] = 0)

\* an accumulator that took a metric with a data point, refused one of
\* another kind that had a data point too, and whose insert then ran without
\* an error
C21_Witness ==
  \E p \in Pushes :
    /\ Len(offered[p]) = 2
    /\ offered[p][1].err = Nil /\ offered[p][1].n >= 1
    /\ offered[p][2].err # Nil /\ offered[p][2].n >= 1
    /\ Returned(p) /\ Failures(p) = {} /\ ~Skipped(p)
    /\ Len(Executions(p)) = acc[p].count

\* start is inside createDatabase
CreateDatabaseStages == {"createDatabase", "buildDB", "execCreateDatabase"}

\* the database name the configuration held when createDatabase was entered:
\* the configuration's own at the entry, the local targetDatabase after it
EntryDatabase == IF spc = "createDatabase" THEN cfg.Database ELSE target

\* the CREATE DATABASE statements among the statements d
DatabaseDDL(d) == SelectSeq(d, LAMBDA x : x.what = "database")

\* C22: createDatabase leaves the configuration's database name as it was on
\* entry on every exit path (skip, connection failure, failed statement,
\* success), and nothing outside createDatabase changes it.  It issues no
\* statement when the configured database is the default one; otherwise the
\* one CREATE DATABASE statement it issues names the database configured on
\* entry, never the default database the configuration held in between.
C22_CreateDatabaseRestoresConfig ==
  [][/\ spc \notin CreateDatabaseStages => cfg' = cfg
     /\ (spc = "createDatabase" /\ spc' = "buildDB") => target' = cfg.Database
     /\ (spc \in CreateDatabaseStages /\ spc' \notin CreateDatabaseStages) =>
          /\ cfg'.Database = EntryDatabase
          /\ cfg'.CreateSchema = cfg.CreateSchema
     /\ (spc = "createDatabase" /\ cfg.Database = defaultDatabase) =>
          /\ spc' \notin CreateDatabaseStages
          /\ ddl' = ddl /\ store' = store
     /\ \A i \in 1..Len(DatabaseDDL(ddl')) :
          /\ i = 1
          /\ DatabaseDDL(ddl')[i].obj = Database(cfg'.Database)
          /\ DatabaseDDL(ddl')[i].obj # Database(defaultDatabase)
          /\ spc \in CreateDatabaseStages => 
               DatabaseDDL(ddl')[i].obj = Database(EntryDatabase)]_vars

\* a second start on a configuration with a database of its own, whose
\* createDatabase connected and whose CREATE DATABASE statement failed: the
\* configuration names its own database again
C22_Witness ==
  /\ spc = "idle" /\ StartsSoFar = 2
  /\ cfg.Database # defaultDatabase /\ target = cfg.Database
  /\ ddl = <<[what |-> "database", obj |-> Database(cfg.Database),
              res |-> "driver error"]>>
  /\ sret = <<"create database", "driver error">>

=============================================================================
